---- MODULE Spec2Model ----
(***************************************************************************)
(* Yahtzee scoring rules of src/Rules.js.                                  *)
(*                                                                         *)
(* The module is a catalog of 13 rule objects.  Each rule has an evalRoll  *)
(* function from a hand of dice to a score.  The state machine below is a  *)
(* caller that holds one hand and evaluates rules of the catalog on it, in *)
(* any order; the state records the hand, the rule evaluated last and the  *)
(* outcome of that evaluation.                                             *)
(*                                                                         *)
(* Outcomes of a JavaScript call are modelled as records                   *)
(*   [threw |-> BOOLEAN, value |-> Int]                                    *)
(* so that an exception (Array.prototype.reduce on an empty array without  *)
(* an initial value) is an outcome distinct from every score.              *)
(***************************************************************************)
EXTENDS Integers, Sequences, FiniteSets, TLC

VARIABLES dice, rule, result

vars == <<dice, rule, result>>

(***************************************************************************)
(* Domain of the dice and bounds of the malformed-input exploration.       *)
(***************************************************************************)
NumDice == 5
NumFaces == 6

MaxHandLen == 5
MaxFaceValue == 7

Number(n) == [threw |-> FALSE, value |-> n]
TypeError == [threw |-> TRUE, value |-> 0]

(***************************************************************************)
(* Rule: the shared helpers.                                               *)
(***************************************************************************)
RECURSIVE reduceFrom(_, _, _)
reduceFrom(d, i, prev) ==
  IF i > Len(d) THEN prev ELSE reduceFrom(d, i + 1, prev + d[i])

\* dice.reduce((prev, curr) => prev + curr): no initial value, so the first
\* element seeds the accumulator and an empty array throws a TypeError.
sum(d) ==
  IF Len(d) = 0 THEN TypeError ELSE Number(reduceFrom(d, 2, d[1]))

\* A Map is a sequence of <<key, value>> pairs in insertion order.
MapHas(m, k) == \E i \in 1..Len(m) : m[i][1] = k
MapGet(m, k) == m[CHOOSE i \in 1..Len(m) : m[i][1] = k][2]
MapSet(m, k, v) ==
  IF MapHas(m, k)
    THEN [i \in 1..Len(m) |-> IF m[i][1] = k THEN <<k, v>> ELSE m[i]]
    ELSE Append(m, <<k, v>>)
MapValues(m) == [i \in 1..Len(m) |-> m[i][2]]

RECURSIVE freqLoop(_, _, _)
freqLoop(d, i, freqs) ==
  IF i > Len(d)
    THEN freqs
    ELSE freqLoop(d, i + 1,
           MapSet(freqs, d[i],
                  (IF MapHas(freqs, d[i]) THEN MapGet(freqs, d[i]) ELSE 0) + 1))

\* Variant of freq that counts runs of adjacent equal dice, as a loop that
\* compares each die with its predecessor would.
RECURSIVE runsLoop(_, _, _)
runsLoop(d, i, runs) ==
  IF i > Len(d)
    THEN runs
    ELSE IF i > 1 /\ d[i] = d[i - 1]
      THEN runsLoop(d, i + 1, [runs EXCEPT ![Len(runs)] = @ + 1])
      ELSE runsLoop(d, i + 1, Append(runs, 1))

freqAdjacentRuns(d) == runsLoop(d, 1, <<>>)

\* frequencies of dice values, in order of first appearance
freq(d) == MapValues(freqLoop(d, 1, <<>>))

\* Variant of count whose filter is d >= val.
countAtLeast(d, val) == Cardinality({i \in 1..Len(d) : d[i] >= val})

\* # times val appears in dice
count(d, val) == Cardinality({i \in 1..Len(d) : d[i] = val})

\* new Set(dice)
SetOf(d) == {d[i] : i \in 1..Len(d)}

\* Array.prototype.some / Array.prototype.includes on an array of counts
includes(a, x) == \E i \in 1..Len(a) : a[i] = x

(***************************************************************************)
(* The rule strategies.  `this` is the record of constructor parameters.   *)
(***************************************************************************)
\* Variant of TotalOneNumber.evalRoll that sums the matching dice with
\* the reduce-based sum.
TotalOneNumberSumFiltered(this, d) ==
  sum(SelectSeq(d, LAMBDA x : x = this.val))

TotalOneNumberEvalRoll(this, d) == Number(this.val * count(d, this.val))

\* Variant of SumDistro.evalRoll with a strict comparison c > this.count.
SumDistroStrict(this, d) ==
  LET f == freq(d) IN
    IF \E i \in 1..Len(f) : f[i] > this.count THEN sum(d) ELSE Number(0)

SumDistroEvalRoll(this, d) ==
  LET f == freq(d) IN
    IF \E i \in 1..Len(f) : f[i] >= this.count THEN sum(d) ELSE Number(0)

\* Variants of FullHouse.evalRoll: without the test for the pair, and with
\* || in place of &&.
FullHouseTripleOnly(this, d) ==
  IF includes(freq(d), 3) THEN Number(this.score) ELSE Number(0)

FullHouseEither(this, d) ==
  IF includes(freq(d), 2) \/ includes(freq(d), 3)
    THEN Number(this.score) ELSE Number(0)

FullHouseEvalRoll(this, d) ==
  LET freqs == freq(d) IN
    IF includes(freqs, 2) /\ includes(freqs, 3)
      THEN Number(this.score) ELSE Number(0)

\* Variant of SmallStraight.evalRoll without the second branch.
SmallStraightFirstBranch(this, d) ==
  LET s == SetOf(d) IN
    IF 2 \in s /\ 3 \in s /\ 4 \in s /\ (1 \in s \/ 5 \in s)
      THEN Number(this.score) ELSE Number(0)

SmallStraightEvalRoll(this, d) ==
  LET s == SetOf(d) IN
    IF 2 \in s /\ 3 \in s /\ 4 \in s /\ (1 \in s \/ 5 \in s)
      THEN Number(this.score)
    ELSE IF 3 \in s /\ 4 \in s /\ 5 \in s /\ (2 \in s \/ 6 \in s)
      THEN Number(this.score)
    ELSE Number(0)

\* Variant of LargeStraight.evalRoll that only tests the size of the set.
LargeStraightSizeOnly(this, d) ==
  IF Cardinality(SetOf(d)) = 5 THEN Number(this.score) ELSE Number(0)

LargeStraightEvalRoll(this, d) ==
  LET s == SetOf(d) IN
    IF Cardinality(s) = 5 /\ (~(1 \in s) \/ ~(6 \in s))
      THEN Number(this.score) ELSE Number(0)

\* Variant of Yahtzee.evalRoll with freq(dice)[0] >= 4.
YahtzeeAtLeastFour(this, d) ==
  LET f == freq(d) IN
    IF Len(f) > 0 /\ f[1] >= 4 THEN Number(this.score) ELSE Number(0)

\* freq(dice)[0] is undefined for an empty array, and undefined === 5 is false
YahtzeeEvalRoll(this, d) ==
  LET f == freq(d) IN
    IF Len(f) > 0 /\ f[1] = 5 THEN Number(this.score) ELSE Number(0)

(***************************************************************************)
(* The exported rule objects.                                              *)
(***************************************************************************)
ones == [class |-> "TotalOneNumber", val |-> 1]
twos == [class |-> "TotalOneNumber", val |-> 2]
threes == [class |-> "TotalOneNumber", val |-> 3]
fours == [class |-> "TotalOneNumber", val |-> 4]
fives == [class |-> "TotalOneNumber", val |-> 5]
sixes == [class |-> "TotalOneNumber", val |-> 6]
threeOfKind == [class |-> "SumDistro", count |-> 3]
fourOfKind == [class |-> "SumDistro", count |-> 4]
fullHouse == [class |-> "FullHouse", score |-> 25]
smallStraight == [class |-> "SmallStraight", score |-> 30]
largeStraight == [class |-> "LargeStraight", score |-> 40]
yahtzee == [class |-> "Yahtzee", score |-> 50]
chance == [class |-> "SumDistro", count |-> 0]

Exports ==
  [ones |-> ones, twos |-> twos, threes |-> threes, fours |-> fours,
   fives |-> fives, sixes |-> sixes, threeOfKind |-> threeOfKind,
   fourOfKind |-> fourOfKind, fullHouse |-> fullHouse,
   smallStraight |-> smallStraight, largeStraight |-> largeStraight,
   yahtzee |-> yahtzee, chance |-> chance]

RuleNames == DOMAIN Exports

RulesOfClass(c) == {r \in RuleNames : Exports[r].class = c}

\* rule.evalRoll(dice): dispatch on the class that defines evalRoll
evalRoll(r, d) ==
  LET this == Exports[r] IN
    CASE this.class = "TotalOneNumber" -> TotalOneNumberEvalRoll(this, d)
      [] this.class = "SumDistro" -> SumDistroEvalRoll(this, d)
      [] this.class = "FullHouse" -> FullHouseEvalRoll(this, d)
      [] this.class = "SmallStraight" -> SmallStraightEvalRoll(this, d)
      [] this.class = "LargeStraight" -> LargeStraightEvalRoll(this, d)
      [] this.class = "Yahtzee" -> YahtzeeEvalRoll(this, d)

(***************************************************************************)
(* Hands.                                                                  *)
(***************************************************************************)
Faces == 1..NumFaces
ValidHands == [1..NumDice -> Faces]
ValidHand(d) == Len(d) = NumDice /\ \A i \in 1..Len(d) : d[i] \in Faces

AnyHands == UNION {[1..n -> 1..MaxFaceValue] : n \in 0..MaxHandLen}

(***************************************************************************)
(* The caller: one action per evalRoll implementation.                     *)
(***************************************************************************)
Evaluate(c) ==
  \E r \in RulesOfClass(c) :
    /\ rule' = r
    /\ result' = evalRoll(r, dice)
    /\ UNCHANGED dice

EvalTotalOneNumber == Evaluate("TotalOneNumber")
EvalSumDistro == Evaluate("SumDistro")
EvalFullHouse == Evaluate("FullHouse")
EvalSmallStraight == Evaluate("SmallStraight")
EvalLargeStraight == Evaluate("LargeStraight")
EvalYahtzee == Evaluate("Yahtzee")

Next ==
  \/ EvalTotalOneNumber
  \/ EvalSumDistro
  \/ EvalFullHouse
  \/ EvalSmallStraight
  \/ EvalLargeStraight
  \/ EvalYahtzee

InitFrom(hands) ==
  /\ dice \in hands
  /\ rule = "none"
  /\ result = Number(0)

Init == InitFrom(ValidHands)
Spec == Init /\ [][Next]_vars

InitAny == InitFrom(AnyHands)
SpecAny == InitAny /\ [][Next]_vars

TypeOK ==
  /\ rule \in RuleNames \cup {"none"}
  /\ result.threw \in BOOLEAN
  /\ result.value \in Int

(***************************************************************************)
(* Vocabulary of the properties, independent of the helpers of Rule.       *)
(***************************************************************************)
Evaluated == rule # "none"
Occurrences(d, v) == Cardinality({i \in DOMAIN d : d[i] = v})
Values(d) == {d[i] : i \in DOMAIN d}

RECURSIVE TotalUpTo(_, _)
TotalUpTo(d, n) == IF n = 0 THEN 0 ELSE TotalUpTo(d, n - 1) + d[n]
Total(d) == TotalUpTo(d, Len(d))

Permuted(d, p) == [i \in DOMAIN d |-> d[p[i]]]

\* C1: for every exported rule and every valid hand, the score of the hand
\* equals the score of every permutation of the hand.
PermutationInvariant ==
  Evaluated =>
    \A p \in Permutations(DOMAIN dice) : evalRoll(rule, Permuted(dice, p)) = result

PermutationWitness ==
  /\ ValidHand(dice)
  /\ rule = "fullHouse"
  /\ dice = <<3, 2, 3, 2, 3>>
  /\ result = Number(25)

\* C2: for every exported rule and every valid hand, evalRoll does not throw
\* and returns an integer score >= 0.
TotalNonNegative ==
  Evaluated => ~result.threw /\ result.value \in Int /\ result.value >= 0

TotalNonNegativeWitness ==
  /\ ValidHand(dice)
  /\ rule = "sixes"
  /\ dice = <<1, 2, 3, 4, 5>>
  /\ result = Number(0)

\* C3: fullHouse scores 25 exactly on the hands with two distinct values, one
\* appearing 3 times and the other 2 times, and 0 on every other hand.
IsFullHouse(d) ==
  /\ Cardinality(Values(d)) = 2
  /\ \E a \in Values(d) : Occurrences(d, a) = 3
  /\ \E b \in Values(d) : Occurrences(d, b) = 2

FullHouseCorrect ==
  rule = "fullHouse" =>
    result = (IF IsFullHouse(dice) THEN Number(25) ELSE Number(0))

FullHouseWitness ==
  /\ rule = "fullHouse"
  /\ dice = <<2, 2, 3, 3, 3>>
  /\ result = Number(25)

\* C4: largeStraight scores 40 exactly when the set of values of the hand is
\* {1,2,3,4,5} or {2,3,4,5,6}, and 0 otherwise.
LargeStraightCorrect ==
  rule = "largeStraight" =>
    result = (IF Values(dice) = 1..5 \/ Values(dice) = 2..6
                THEN Number(40) ELSE Number(0))

LargeStraightWitness ==
  /\ rule = "largeStraight"
  /\ dice = <<6, 2, 3, 4, 5>>
  /\ result = Number(40)

\* C5: smallStraight scores 30 exactly when the set of values of the hand
\* includes {1,2,3,4}, {2,3,4,5} or {3,4,5,6}, and 0 otherwise.
SmallStraightCorrect ==
  rule = "smallStraight" =>
    result = (IF \E lo \in 1..3 : (lo..(lo + 3)) \subseteq Values(dice)
                THEN Number(30) ELSE Number(0))

SmallStraightWitness ==
  /\ rule = "smallStraight"
  /\ dice = <<3, 4, 5, 6, 6>>
  /\ result = Number(30)

\* C6: yahtzee scores 50 exactly when all five dice show the same value, and
\* 0 otherwise.
YahtzeeCorrect ==
  rule = "yahtzee" =>
    result = (IF \A i, j \in DOMAIN dice : dice[i] = dice[j]
                THEN Number(50) ELSE Number(0))

YahtzeeWitness ==
  /\ rule = "yahtzee"
  /\ dice = <<4, 4, 4, 4, 4>>
  /\ result = Number(50)

\* C7: threeOfKind (k = 3) and fourOfKind (k = 4) score the sum of the five
\* dice when some value appears at least k times and 0 otherwise; chance
\* scores the sum of the five dice on every hand.
AtLeastOfKind(d, k) == \E v \in Values(d) : Occurrences(d, v) >= k

SumDistroCorrect ==
  /\ rule = "threeOfKind" =>
       result = (IF AtLeastOfKind(dice, 3) THEN Number(Total(dice)) ELSE Number(0))
  /\ rule = "fourOfKind" =>
       result = (IF AtLeastOfKind(dice, 4) THEN Number(Total(dice)) ELSE Number(0))
  /\ rule = "chance" => result = Number(Total(dice))

SumDistroWitness ==
  /\ rule = "threeOfKind"
  /\ dice = <<2, 2, 2, 5, 6>>
  /\ result = Number(17)

\* C8: the rule for face value v (ones..sixes, v = 1..6) scores v times the
\* number of dice equal to v, which is 0 without error when v is absent.
FaceOf(r) ==
  CASE r = "ones" -> 1 [] r = "twos" -> 2 [] r = "threes" -> 3
    [] r = "fours" -> 4 [] r = "fives" -> 5 [] r = "sixes" -> 6

PerFaceCorrect ==
  rule \in {"ones", "twos", "threes", "fours", "fives", "sixes"} =>
    result = Number(FaceOf(rule) * Occurrences(dice, FaceOf(rule)))

PerFaceWitness ==
  /\ rule = "fours"
  /\ dice = <<4, 1, 4, 6, 4>>
  /\ result = Number(12)

\* C9: on a malformed hand (length other than 5, or a value outside 1..6)
\* every rule's evalRoll ends in an error instead of returning a score.
MalformedFailsFast ==
  (Evaluated /\ ~ValidHand(dice)) => result.threw

\* C10: the rules are consistent in strength: a large straight is a small
\* straight; a yahtzee scores the sum under fourOfKind and 0 under fullHouse;
\* a scoring fourOfKind scores the same under threeOfKind; a full house
\* scores the sum under threeOfKind; no hand scores under both fullHouse and
\* a straight rule.
StrengthConsistent ==
  /\ (rule = "largeStraight" /\ result = Number(40)) =>
       evalRoll("smallStraight", dice) = Number(30)
  /\ (rule = "yahtzee" /\ result = Number(50)) =>
       /\ evalRoll("fourOfKind", dice) = Number(Total(dice))
       /\ evalRoll("fullHouse", dice) = Number(0)
  /\ (rule = "fourOfKind" /\ result.value > 0) =>
       evalRoll("threeOfKind", dice) = result
  /\ (rule = "fullHouse" /\ result = Number(25)) =>
       evalRoll("threeOfKind", dice) = Number(Total(dice))
  /\ (rule = "fullHouse" /\ result.value > 0) =>
       /\ evalRoll("smallStraight", dice) = Number(0)
       /\ evalRoll("largeStraight", dice) = Number(0)
  /\ (rule \in {"smallStraight", "largeStraight"} /\ result.value > 0) =>
       evalRoll("fullHouse", dice) = Number(0)

StrengthWitness ==
  /\ rule = "yahtzee"
  /\ dice = <<6, 6, 6, 6, 6>>
  /\ result = Number(50)
====
